---- MODULE Spec2Model ----
(***************************************************************************)
(* Model of the stock-insights dashboard: the POST /api/stock-insights     *)
(* route handler (symbol normalisation, concurrent per-symbol pipelines,   *)
(* response shaping) and the percentage calculations of lib/calculations.  *)
(*                                                                         *)
(* Strings are sequences of one-character strings.  JSON null is Null.     *)
(* Numbers are extended rationals: [k |-> "num", n, d] with d > 0, or NaN, *)
(* PosInf, NegInf.                                                         *)
(***************************************************************************)
EXTENDS Integers, Sequences, FiniteSets, TLC

\* ------------------------------------------------------------------ bounds

\* Longest symbols string of a request in the handler specification.
MaxBodyLen == 3
\* Longest symbols string in the normalisation specification.
MaxLen == 5
\* Longest symbols array in the normalisation specification (its elements are
\* strings of at most one character).
MaxArr == 3
\* Publish times of the news provider's items are 1..MaxTime.
MaxTime == 4
\* Finite inputs of the percentage functions range over -MaxVal..MaxVal (and
\* the documented example values).
MaxVal == 3

\* ------------------------------------------------------------------ strings

Chars == {"a", "A", "b", " ", ","}

RECURSIVE SeqsUpTo(_, _)
SeqsUpTo(S, n) ==
  IF n = 0 THEN {<<>>}
  ELSE LET shorter == SeqsUpTo(S, n - 1)
       IN  shorter \cup {Append(s, c) : s \in {t \in shorter : Len(t) = n - 1}, c \in S}

Str(n) == SeqsUpTo(Chars, n)

\* String.prototype.toUpperCase, one character
UpperChar(c) ==
  CASE c = "a" -> "A" [] c = "b" -> "B" [] c = "n" -> "N" [] c = "s" -> "S"
    [] c = "o" -> "O" [] c = "e" -> "E" [] OTHER -> c

toUpperCase(s) == [i \in 1..Len(s) |-> UpperChar(s[i])]

IsSpace(c) == c \in {" ", "\n"}

RECURSIVE trimStart(_)
trimStart(s) == IF s # <<>> /\ IsSpace(Head(s)) THEN trimStart(Tail(s)) ELSE s

RECURSIVE trimEnd(_)
trimEnd(s) ==
  IF s # <<>> /\ IsSpace(s[Len(s)]) THEN trimEnd(SubSeq(s, 1, Len(s) - 1)) ELSE s

\* String.prototype.trim
trim(s) == trimEnd(trimStart(s))

\* String.prototype.split(","): the pieces between the commas, empty ones kept
\* ("" splits into [""]).
RECURSIVE splitFrom(_, _)
splitFrom(s, cur) ==
  IF s = <<>> THEN <<cur>>
  ELSE IF Head(s) = "," THEN <<cur>> \o splitFrom(Tail(s), <<>>)
  ELSE splitFrom(Tail(s), Append(cur, Head(s)))

split(s) == splitFrom(s, <<>>)

\* Array.prototype.join(",")
RECURSIVE join(_)
join(a) ==
  IF a = <<>> THEN <<>>
  ELSE IF Len(a) = 1 THEN a[1]
  ELSE a[1] \o <<",">> \o join(Tail(a))

\* .map((s) => s.trim().toUpperCase())
mapTrimUpper(a) == [i \in 1..Len(a) |-> toUpperCase(trim(a[i]))]

\* .filter(Boolean) keeping every element (the emptiness filter left out)
filterBooleanKeepsAll(a) == a

\* .filter(Boolean) on an array of strings: the empty string is falsy
RECURSIVE filterBoolean(_)
filterBoolean(a) ==
  IF a = <<>> THEN <<>>
  ELSE IF Head(a) = <<>> THEN filterBoolean(Tail(a))
  ELSE <<Head(a)>> \o filterBoolean(Tail(a))

Elems(a) == {a[i] : i \in 1..Len(a)}

\* de-duplication that keeps the LAST occurrence of each value
RECURSIVE uniqueKeepLast(_)
uniqueKeepLast(a) ==
  IF a = <<>> THEN <<>>
  ELSE IF Head(a) \in Elems(Tail(a)) THEN uniqueKeepLast(Tail(a))
  ELSE <<Head(a)>> \o uniqueKeepLast(Tail(a))

\* Array.from(new Set(a)): a Set keeps insertion order, a repeated add is a no-op
RECURSIVE setInsertAll(_, _)
setInsertAll(a, acc) ==
  IF a = <<>> THEN acc
  ELSE setInsertAll(Tail(a), IF Head(a) \in Elems(acc) THEN acc ELSE Append(acc, Head(a)))

arrayFromSet(a) == setInsertAll(a, <<>>)

\* ------------------------------------------------------------------ numbers

Null == [k |-> "null"]
Undefined == [k |-> "undefined"]
NaN == [k |-> "nan"]
PosInf == [k |-> "inf", s |-> 1]
NegInf == [k |-> "inf", s |-> -1]

Abs(x) == IF x < 0 THEN -x ELSE x
Sgn(x) == IF x < 0 THEN -1 ELSE IF x > 0 THEN 1 ELSE 0

RECURSIVE Gcd(_, _)
Gcd(a, b) == IF b = 0 THEN a ELSE Gcd(b, a % b)

\* the number n/d (d # 0), in lowest terms with a positive denominator
Rat(n, d) ==
  LET g == Gcd(Abs(n), Abs(d))
  IN  [k |-> "num", n |-> Sgn(d) * (n \div g), d |-> Abs(d) \div g]

\* the product (n1/d1) * (n2/d2), common factors cancelled before multiplying
RatMul(n1, d1, n2, d2) ==
  LET g1 == Gcd(Abs(n1), Abs(d2))
      g2 == Gcd(Abs(n2), Abs(d1))
  IN  IF n1 = 0 \/ n2 = 0 THEN Rat(0, 1)
      ELSE Rat((n1 \div g1) * (n2 \div g2), (d1 \div g2) * (d2 \div g1))

Int2Num(i) == Rat(i, 1)
Inf(sign) == IF sign < 0 THEN NegInf ELSE PosInf

\* the global isFinite on a number
isFinite(x) == x.k = "num"

\* IEEE subtraction, division and multiplication on the extended rationals
FSub(a, b) ==
  IF a.k = "nan" \/ b.k = "nan" THEN NaN
  ELSE IF a.k = "inf" THEN (IF b.k = "inf" /\ b.s = a.s THEN NaN ELSE a)
  ELSE IF b.k = "inf" THEN Inf(-b.s)
  ELSE Rat(a.n * b.d - b.n * a.d, a.d * b.d)

FDiv(a, b) ==
  IF a.k = "nan" \/ b.k = "nan" THEN NaN
  ELSE IF a.k = "inf" THEN (IF b.k = "inf" THEN NaN
                           ELSE Inf(a.s * (IF b.n < 0 THEN -1 ELSE 1)))
  ELSE IF b.k = "inf" THEN Int2Num(0)
  ELSE IF b.n = 0 THEN (IF a.n = 0 THEN NaN ELSE Inf(Sgn(a.n)))
  ELSE RatMul(a.n, a.d, b.d, b.n)

FMul(a, b) ==
  IF a.k = "nan" \/ b.k = "nan" THEN NaN
  ELSE IF a.k = "inf" THEN (IF b.k = "inf" THEN Inf(a.s * b.s)
                           ELSE IF b.n = 0 THEN NaN ELSE Inf(a.s * Sgn(b.n)))
  ELSE IF b.k = "inf" THEN (IF a.n = 0 THEN NaN ELSE Inf(b.s * Sgn(a.n)))
  ELSE RatMul(a.n, a.d, b.n, b.d)

\* the percentage computed without the guard on the reference value
pctUnguarded(currentPrice, ref) ==
  FMul(FDiv(FSub(currentPrice, ref), ref), Int2Num(100))

\* lib/calculations: pctFromHigh
pctFromHigh(currentPrice, high52) ==
  IF ~isFinite(currentPrice) \/ ~isFinite(high52) \/ high52 = Int2Num(0)
  THEN NaN
  ELSE FMul(FDiv(FSub(currentPrice, high52), high52), Int2Num(100))

\* lib/calculations: pctFromLow
pctFromLow(currentPrice, low52) ==
  IF ~isFinite(currentPrice) \/ ~isFinite(low52) \/ low52 = Int2Num(0)
  THEN NaN
  ELSE FMul(FDiv(FSub(currentPrice, low52), low52), Int2Num(100))

\* value.toFixed(2) of a finite number, in hundredths (ties away from zero)
toFixed2(x) == Sgn(x.n) * ((2 * 100 * Abs(x.n) + x.d) \div (2 * x.d))

\* ------------------------------------------------ providers and aggregator

Pending == [k |-> "pending"]

\* a string-valued JSON field (error texts), as opposed to Null
Text(m) == [k |-> "str", v |-> m]

\* What the price/range provider call of one symbol can end in: a failure with
\* its message, a normal quote (1234.56 between 900 and 1500), or a quote whose
\* 52-week range is zero.
PriceOutcomes ==
  { [k |-> "fail", message |-> "price provider error"],
    [k |-> "ok", currentPrice |-> Rat(123456, 100),
                 high52 |-> Int2Num(1500), low52 |-> Int2Num(900)],
    [k |-> "ok", currentPrice |-> Int2Num(5),
                 high52 |-> Int2Num(0), low52 |-> Int2Num(0)] }

Times == 1..MaxTime

\* the provider's items, identified by their publish time
NewsItem(t) == [publishedAt |-> t]

\* every list of items with distinct publish times
InjectiveSeqs(S) == {s \in SeqsUpTo(S, Cardinality(S)) :
                      \A i, j \in 1..Len(s) : i # j => s[i] # s[j]}

Feed(s) == [k |-> "ok", items |-> [i \in 1..Len(s) |-> NewsItem(s[i])]]

NewsFailure == [k |-> "fail", message |-> "news provider error"]

\* What the news provider call of one symbol can end in.  "small": a failure,
\* no item, or four items out of order; "wide": a failure or any list of items
\* with distinct publish times.
NewsOutcomes(domain) ==
  IF domain = "wide"
  THEN {NewsFailure} \cup {Feed(s) : s \in InjectiveSeqs(Times)}
  ELSE {NewsFailure, Feed(<<>>), Feed(<<2, 4, 1, 3>>)}

\* the items inserted by publish time, most recent first
RECURSIVE insertDesc(_, _)
insertDesc(x, sorted) ==
  IF sorted = <<>> THEN <<x>>
  ELSE IF x.publishedAt >= Head(sorted).publishedAt THEN <<x>> \o sorted
  ELSE <<Head(sorted)>> \o insertDesc(x, Tail(sorted))

RECURSIVE sortByPublishedAtDesc(_)
sortByPublishedAtDesc(items) ==
  IF items = <<>> THEN <<>>
  ELSE insertDesc(Head(items), sortByPublishedAtDesc(Tail(items)))

\* number of headlines kept per symbol
TopNews == 3

slice(a, n) == SubSeq(a, 1, IF Len(a) < n THEN Len(a) ELSE n)

\* the news mapping without the truncation to the most recent items
fetchNewsNoTruncation(res) ==
  IF res.k = "fail" THEN <<>> ELSE sortByPublishedAtDesc(res.items)

\* fetchNewsForSymbol: the provider's items, most recent first, cut to the
\* first TopNews; a provider failure gives the empty list
fetchNewsForSymbol(res) ==
  IF res.k = "fail" THEN <<>>
  ELSE slice(sortByPublishedAtDesc(res.items), TopNews)

\* fetchBulkDealsForSymbol returning one deal
fetchBulkDealsOneDeal(symbol) == <<[exchange |-> "NSE", quantity |-> 1]>>

\* fetchBulkDealsForSymbol: the baseline returns an empty array
fetchBulkDealsForSymbol(symbol) == <<>>

\* the record of a symbol whose fetch failed with message m
errorRecord(symbol, m, latestNews) ==
  [symbol |-> symbol,
   currentPrice |-> Null,
   high52 |-> Null,
   low52 |-> Null,
   pctFromHigh |-> Null,
   pctFromLow |-> Null,
   latestNews |-> latestNews,
   bulkDeals |-> <<>>,
   error |-> Text(m)]

\* buildStockInsight treating a news failure like a price/range failure
buildStockInsightNewsFatal(symbol, price, news) ==
  IF news.k = "fail" THEN errorRecord(symbol, news.message, <<>>)
  ELSE IF price.k = "fail"
  THEN errorRecord(symbol, price.message, fetchNewsForSymbol(news))
  ELSE [symbol |-> symbol,
        currentPrice |-> price.currentPrice,
        high52 |-> price.high52,
        low52 |-> price.low52,
        pctFromHigh |-> pctFromHigh(price.currentPrice, price.high52),
        pctFromLow |-> pctFromLow(price.currentPrice, price.low52),
        latestNews |-> fetchNewsForSymbol(news),
        bulkDeals |-> <<>>,
        error |-> Null]

\* buildStockInsight, given what the symbol's price/range and news calls ended in
buildStockInsight(symbol, price, news) ==
  IF price.k = "ok"
  THEN [symbol |-> symbol,
        currentPrice |-> price.currentPrice,
        high52 |-> price.high52,
        low52 |-> price.low52,
        pctFromHigh |-> pctFromHigh(price.currentPrice, price.high52),
        pctFromLow |-> pctFromLow(price.currentPrice, price.low52),
        latestNews |-> fetchNewsForSymbol(news),
        bulkDeals |-> <<>>,
        error |-> Null]
  ELSE errorRecord(symbol, price.message, fetchNewsForSymbol(news))

\* ------------------------------------------------------- POST route handler

VARIABLES
  body,        \* the request body as sent
  pc,          \* the handler's position: start, parsed, awaiting, responded
  parsed,      \* what `await req.json().catch(() => ({}))` gave
  unique,      \* the de-duplicated symbol list
  newsDomain,  \* which lists the news provider may return in this run
  stage,       \* per symbol: build, deals, done
  priceRes,    \* per symbol: what the price/range call ended in, or Pending
  newsRes,     \* per symbol: what the news call ended in, or Pending
  base,        \* per symbol: the record buildStockInsight resolved with
  insights,    \* per symbol: the record the per-symbol callback resolved with
  doneOrder,   \* the symbols' indices in the order their callbacks resolved
  calls,       \* how many calls of each collaborator have been made
  caught,      \* the exception the handler's catch block received, or Null
  response,    \* the response sent, or Null
  \* the percentage functions, called on their own
  pctFn, pctCur, pctRef, pctOut,
  \* the page
  rendered,    \* per result row, the number of headlines the table shows
  \* the symbols route
  csvFile,         \* the content of nse_stock_symbols.csv, or Unreadable
  symbolsResponse, \* the response of GET /api/nse-symbols, or Null
  \* stripExchangeSuffix, called on its own
  stripIn,         \* the symbol it is called with
  stripOut,        \* what it returned, or Null
  \* the page's form
  symbolsInput,    \* the text of the symbols box
  loading, apiError, validationError,
  results,         \* the rows of the last successful response
  inflight,        \* the bodies of the requests sent and not yet settled
  lastClick,       \* whether the last click of Fetch sent a request, and what
                   \* the route answers to the box's text of that moment
  lastOutcome,     \* how the last request settled, or Null once Fetch is
                   \* clicked again
  stockSuggestions,
  symbolsFetch,    \* the request for the symbol list: pending or settled
  currentWord, showSuggestions, selectedIndex,
  lastInserted     \* the suggestion inserted into the box by the last event,
                   \* or Null

handlerVars == <<body, pc, parsed, unique, newsDomain, stage, priceRes, newsRes,
                 base, insights, doneOrder, calls, caught, response>>
pctVars == <<pctFn, pctCur, pctRef, pctOut>>
pageVars == <<rendered>>
symbolsVars == <<csvFile, symbolsResponse>>
stripVars == <<stripIn, stripOut>>
fetchVars == <<loading, apiError, validationError, results, inflight,
               lastClick, lastOutcome>>
autoVars == <<stockSuggestions, symbolsFetch, currentWord, showSuggestions,
              selectedIndex, lastInserted>>
formVars == <<symbolsInput, fetchVars, autoVars>>
siteVars == <<symbolsVars, stripVars, formVars>>
vars == <<handlerVars, pctVars, pageVars, siteVars>>

Malformed == [k |-> "malformed"]
NullBody == [k |-> "null"]
Obj(symbols) == [k |-> "object", symbols |-> symbols]
StringVal(s) == [k |-> "string", s |-> s]
ArrayVal(a) == [k |-> "array", a |-> a]
NumberVal == [k |-> "number"]

\* the request bodies: unparsable text, JSON null, and objects whose symbols
\* field is missing, a number, a string or an array of strings
BodiesOver(strings, arrays) ==
  {Malformed, NullBody, Obj(Undefined), Obj(NumberVal)}
    \cup {Obj(StringVal(s)) : s \in strings}
    \cup {Obj(ArrayVal(a)) : a \in arrays}

NoCalls == [buildStockInsight |-> 0, fetchPriceAndRange |-> 0,
            fetchNewsForSymbol |-> 0, fetchBulkDealsForSymbol |-> 0]

InitPct == pctFn = "none" /\ pctCur = Null /\ pctRef = Null /\ pctOut = Null

Unreadable == [k |-> "unreadable"]

\* no request for the symbol list has been made
IdleSymbols == csvFile = Unreadable /\ symbolsResponse = Null

\* the parts of the site other than the insights handler, at rest
\* stripExchangeSuffix has not been called
IdleStrip == stripIn = <<>> /\ stripOut = Null

\* line 73
InitialInput ==
  <<"R", "E", "L", "I", "A", "N", "C", "E", ",", " ", "T", "C", "S">>

\* lines 73-105: the form's state when the page is mounted, the request for
\* the symbol list under way
FormMounted ==
  /\ symbolsInput = InitialInput
  /\ loading = FALSE
  /\ apiError = Null
  /\ validationError = Null
  /\ results = <<>>
  /\ inflight = <<>>
  /\ lastClick = Null
  /\ lastOutcome = Null
  /\ stockSuggestions = <<>>
  /\ symbolsFetch = "pending"
  /\ currentWord = <<>>
  /\ showSuggestions = FALSE
  /\ selectedIndex = 0
  /\ lastInserted = Null

\* the page with no event delivered to it
IdleForm == FormMounted

IdleSite == IdleSymbols /\ IdleStrip /\ IdleForm

InitHandler(bodies, domain) ==
  /\ body \in bodies
  /\ newsDomain = domain
  /\ pc = "start"
  /\ parsed = Null
  /\ unique = <<>>
  /\ stage = <<>>
  /\ priceRes = <<>>
  /\ newsRes = <<>>
  /\ base = <<>>
  /\ insights = <<>>
  /\ doneOrder = <<>>
  /\ calls = NoCalls
  /\ caught = Null
  /\ response = Null
  /\ rendered = <<>>

\* the SyntaxError req.json() rejects with when the body is not JSON
ParseError ==
  [name |-> "SyntaxError", message |-> Text("Unexpected end of JSON input")]

\* an exception on its way to the handler's catch block
Thrown(err) == [k |-> "thrown", error |-> err]

\* req.json() with no .catch: the rejection propagates out of the await
reqJsonUncaught(b) == IF b = Malformed THEN Thrown(ParseError) ELSE b

\* line 10: req.json().catch(() => ({})), an unparsable body replaced by {}
reqJson(b) == IF b = Malformed THEN Obj(Undefined) ELSE b

\* line 10
ReadBody ==
  /\ pc = "start"
  /\ parsed' = reqJson(body)
  /\ pc' = "parsed"
  /\ UNCHANGED <<body, unique, newsDomain, stage, priceRes, newsRes, base,
                 insights, doneOrder, calls, caught, response>>
  /\ UNCHANGED <<pctVars, pageVars, siteVars>>

\* lines 11-13: the symbols field as one comma-separated string
rawOf(b) ==
  IF b.symbols.k = "array" /\ join(b.symbols.a) # <<>> THEN join(b.symbols.a)
  ELSE IF b.symbols.k = "string" THEN b.symbols.s
  ELSE <<>>

\* lines 15-18
symbolsOf(raw) == filterBoolean(mapTrimUpper(split(raw)))

\* line 27
uniqueOf(symbols) == arrayFromSet(symbols)

GenericMessage == "Unexpected server error while fetching stock insights."

\* a catch block that always answers with the fixed text
catchGeneric(err) == [status |-> 500, error |-> Text(GenericMessage)]

\* lines 42-51: the catch block's response
catchResponse(err) ==
  [status |-> 500,
   error |-> IF err.message \notin {Null, Undefined} THEN err.message
             ELSE Text(GenericMessage)]

\* the TypeError of reading .symbols of null
NullBodyError ==
  [name |-> "TypeError",
   message |-> Text("Cannot read properties of null (reading 'symbols')")]

\* what the try block throws before line 15, if anything: an exception that
\* came out of line 10, or the TypeError of body.symbols on a null body
thrownBy(p) ==
  IF p.k = "thrown" THEN p.error
  ELSE IF p = NullBody THEN NullBodyError
  ELSE Null

\* lines 10-13 throwing: the catch block answers
HandlerThrows ==
  /\ pc = "parsed"
  /\ thrownBy(parsed) # Null
  /\ caught' = thrownBy(parsed)
  /\ response' = catchResponse(thrownBy(parsed))
  /\ pc' = "responded"
  /\ UNCHANGED <<body, parsed, unique, newsDomain, stage, priceRes, newsRes,
                 base, insights, doneOrder, calls>>
  /\ UNCHANGED <<pctVars, pageVars, siteVars>>

\* lines 20-25
RespondNoSymbols ==
  /\ pc = "parsed"
  /\ thrownBy(parsed) = Null
  /\ symbolsOf(rawOf(parsed)) = <<>>
  /\ response' = [status |-> 400, error |-> Text("No symbols provided.")]
  /\ pc' = "responded"
  /\ UNCHANGED <<body, parsed, unique, newsDomain, stage, priceRes, newsRes,
                 base, insights, doneOrder, calls, caught>>
  /\ UNCHANGED <<pctVars, pageVars, siteVars>>

\* a callback that starts both of its calls before it awaits either
callsBothAtFanOut(c, n) ==
  [c EXCEPT !.buildStockInsight = @ + n,
            !.fetchPriceAndRange = @ + n,
            !.fetchNewsForSymbol = @ + n,
            !.fetchBulkDealsForSymbol = @ + n]

\* lines 30-31: the calls made while unique.map runs the n callbacks up to
\* their first await, which is the one of buildStockInsight(symbol)
callsAtFanOut(c, n) ==
  [c EXCEPT !.buildStockInsight = @ + n,
            !.fetchPriceAndRange = @ + n,
            !.fetchNewsForSymbol = @ + n]

\* lines 27-31: unique.map runs every callback up to its first await, so
\* buildStockInsight is called for every symbol, and each call starts the
\* symbol's price/range and news requests
FanOut ==
  /\ pc = "parsed"
  /\ thrownBy(parsed) = Null
  /\ symbolsOf(rawOf(parsed)) # <<>>
  /\ LET u == uniqueOf(symbolsOf(rawOf(parsed)))
         n == Len(u)
     IN  /\ unique' = u
         /\ stage' = [i \in 1..n |-> "build"]
         /\ priceRes' = [i \in 1..n |-> Pending]
         /\ newsRes' = [i \in 1..n |-> Pending]
         /\ base' = [i \in 1..n |-> Null]
         /\ insights' = [i \in 1..n |-> Null]
         /\ calls' = callsAtFanOut(calls, n)
  /\ pc' = "awaiting"
  /\ UNCHANGED <<body, parsed, newsDomain, doneOrder, caught, response>>
  /\ UNCHANGED <<pctVars, pageVars, siteVars>>

Indices == 1..Len(unique)

\* the price/range request of symbol i settles
PriceReturn(i) ==
  /\ pc = "awaiting"
  /\ stage[i] = "build"
  /\ priceRes[i] = Pending
  /\ \E o \in PriceOutcomes : priceRes' = [priceRes EXCEPT ![i] = o]
  /\ UNCHANGED <<body, pc, parsed, unique, newsDomain, stage, newsRes, base,
                 insights, doneOrder, calls, caught, response>>
  /\ UNCHANGED <<pctVars, pageVars, siteVars>>

\* the news request of symbol i settles
NewsReturn(i) ==
  /\ pc = "awaiting"
  /\ stage[i] = "build"
  /\ newsRes[i] = Pending
  /\ \E o \in NewsOutcomes(newsDomain) : newsRes' = [newsRes EXCEPT ![i] = o]
  /\ UNCHANGED <<body, pc, parsed, unique, newsDomain, stage, priceRes, base,
                 insights, doneOrder, calls, caught, response>>
  /\ UNCHANGED <<pctVars, pageVars, siteVars>>

\* what the bulkDeals field of the record buildStockInsight resolves with may
\* hold: the callback never reads it
BaseDeals == {<<>>, <<[exchange |-> "BSE", quantity |-> 2]>>}

\* lines 31-32: buildStockInsight(symbol) resolves, and the callback goes on to
\* call fetchBulkDealsForSymbol(symbol)
BuildResolve(i) ==
  /\ pc = "awaiting"
  /\ stage[i] = "build"
  /\ priceRes[i] # Pending
  /\ newsRes[i] # Pending
  /\ \E d \in BaseDeals :
       base' = [base EXCEPT ![i] =
                  [buildStockInsight(unique[i], priceRes[i], newsRes[i])
                     EXCEPT !.bulkDeals = d]]
  /\ stage' = [stage EXCEPT ![i] = "deals"]
  /\ calls' = [calls EXCEPT !.fetchBulkDealsForSymbol = @ + 1]
  /\ UNCHANGED <<body, pc, parsed, unique, newsDomain, priceRes, newsRes,
                 insights, doneOrder, caught, response>>
  /\ UNCHANGED <<pctVars, pageVars, siteVars>>

\* the callback's record with the base record's fields left out
mergeWithoutBase(b, bulkDeals) ==
  [symbol |-> b.symbol, currentPrice |-> Null, high52 |-> Null, low52 |-> Null,
   pctFromHigh |-> Null, pctFromLow |-> Null, latestNews |-> <<>>,
   bulkDeals |-> bulkDeals, error |-> Null]

\* the spread written after the field: { bulkDeals, ...base }
mergeBaseLast(b, bulkDeals) == b

\* line 33: { ...base, bulkDeals }
merge(b, bulkDeals) == [b EXCEPT !.bulkDeals = bulkDeals]

\* lines 32-34: fetchBulkDealsForSymbol(symbol) resolves and the callback
\* returns the merged record
DealsReturn(i) ==
  /\ pc = "awaiting"
  /\ stage[i] = "deals"
  /\ insights' = [insights EXCEPT ![i] = merge(base[i], fetchBulkDealsForSymbol(unique[i]))]
  /\ stage' = [stage EXCEPT ![i] = "done"]
  /\ doneOrder' = Append(doneOrder, i)
  /\ UNCHANGED <<body, pc, parsed, unique, newsDomain, priceRes, newsRes, base,
                 calls, caught, response>>
  /\ UNCHANGED <<pctVars, pageVars, siteVars>>

\* the records in the order the callbacks resolved
promiseAllCompletionOrder(ins, order) == [i \in 1..Len(order) |-> ins[order[i]]]

\* the records of the symbols without an error only
RECURSIVE dropErrors(_)
dropErrors(ins) ==
  IF ins = <<>> THEN <<>>
  ELSE IF Head(ins).error # Null THEN dropErrors(Tail(ins))
  ELSE <<Head(ins)>> \o dropErrors(Tail(ins))

promiseAllDropErrors(ins, order) == dropErrors(ins)

\* line 29: Promise.all resolves with the callbacks' values in the order of
\* the array it was given, whatever order they resolved in
promiseAll(ins, order) == ins

\* JSON.stringify writes NaN and the infinities as null
jsonNumber(x) == IF x.k \in {"nan", "inf"} THEN Null ELSE x

\* line 41: a record as NextResponse.json serialises it
toJSON(r) ==
  IF r = Null THEN Null
  ELSE [r EXCEPT !.currentPrice = jsonNumber(@),
                 !.high52 = jsonNumber(@),
                 !.low52 = jsonNumber(@),
                 !.pctFromHigh = jsonNumber(@),
                 !.pctFromLow = jsonNumber(@)]

\* a combinator that settles with the first callback to resolve
firstResolved(st) == \E i \in DOMAIN st : st[i] = "done"

\* lines 29-35: Promise.all resolves when every callback has resolved
allResolved(st) == \A i \in DOMAIN st : st[i] = "done"

\* lines 29-41: every callback has resolved
RespondOk ==
  /\ pc = "awaiting"
  /\ allResolved(stage)
  /\ LET all == promiseAll(insights, doneOrder)
     IN  response' = [status |-> 200,
                      results |-> [i \in 1..Len(all) |-> toJSON(all[i])]]
  /\ pc' = "responded"
  /\ UNCHANGED <<body, parsed, unique, newsDomain, stage, priceRes, newsRes,
                 base, insights, doneOrder, calls, caught>>
  /\ UNCHANGED <<pctVars, pageVars, siteVars>>

\* the news cell of a result row: one list item per element of latestNews
headlinesShown(row) == Len(row.latestNews)

\* the page shows the rows of a 200 response
RenderRows ==
  /\ pc = "responded"
  /\ response.status = 200
  /\ rendered = <<>>
  /\ rendered' = [i \in 1..Len(response.results) |-> headlinesShown(response.results[i])]
  /\ UNCHANGED <<handlerVars, pctVars, siteVars>>

\* ------------------------------------------------------------ specifications

HandlerStrings == Str(MaxBodyLen)
HandlerArrays == SeqsUpTo(Str(1), 2)

\* a request for one symbol
OneSymbolBodies == {Obj(StringVal(<<"a">>))}

\* The handler, from the request to the rendered rows: every body with a short
\* symbols string or array under the small news domain, and a one-symbol
\* request under the wide one.
Init ==
  /\ InitPct
  /\ IdleSite
  /\ \/ InitHandler(BodiesOver(HandlerStrings, HandlerArrays), "small")
     \/ InitHandler(OneSymbolBodies, "wide")

Next ==
  \/ ReadBody
  \/ HandlerThrows
  \/ RespondNoSymbols
  \/ FanOut
  \/ \E i \in Indices : PriceReturn(i)
  \/ \E i \in Indices : NewsReturn(i)
  \/ \E i \in Indices : BuildResolve(i)
  \/ \E i \in Indices : DealsReturn(i)
  \/ RespondOk
  \/ RenderRows

Spec == Init /\ [][Next]_vars

\* lines 11-31 seen on pc alone: once the body is read the handler runs
\* without suspending up to a response or to the await of Promise.all
RunsToSuspension == pc = "parsed" /\ pc' \in {"awaiting", "responded"}

\* lines 31-32 seen on stage alone: a callback resumes from its first await
BuildResumes ==
  \E i \in Indices :
    /\ pc = "awaiting"
    /\ stage[i] = "build"
    /\ priceRes[i] # Pending
    /\ newsRes[i] # Pending
    /\ stage' = [stage EXCEPT ![i] = "deals"]

\* Every provider call returns, and the event loop runs every continuation
\* whose promise has settled.
Fairness ==
  /\ WF_vars(ReadBody)
  /\ WF_pc(RunsToSuspension)
  /\ WF_vars(\E i \in Indices : PriceReturn(i))
  /\ WF_vars(\E i \in Indices : NewsReturn(i))
  /\ WF_stage(BuildResumes)
  /\ WF_vars(\E i \in Indices : DealsReturn(i))
  /\ WF_vars(RespondOk)

\* every body with a symbols string of at most one character or an array of
\* at most two such strings, under the small news domain
InitLive ==
  /\ InitPct
  /\ IdleSite
  /\ InitHandler(BodiesOver(Str(1), HandlerArrays), "small")

SpecLive == InitLive /\ [][Next]_vars /\ Fairness

\* The handler up to the fan-out, on every body with a symbols string of up to
\* MaxLen characters or an array of up to MaxArr short strings.
InitNorm ==
  /\ InitPct
  /\ IdleSite
  /\ InitHandler(BodiesOver(Str(MaxLen), SeqsUpTo(Str(1), MaxArr)), "small")

NextNorm == ReadBody \/ HandlerThrows \/ RespondNoSymbols \/ FanOut

SpecNorm == InitNorm /\ [][NextNorm]_vars

\* The percentage functions on their own.
PctInputs ==
  {Int2Num(i) : i \in -MaxVal..MaxVal}
    \cup {Rat(123456, 100), Int2Num(1500), Int2Num(900)}
    \cup {NaN, PosInf, NegInf}

InitPctCall ==
  /\ pctFn \in {"pctFromHigh", "pctFromLow"}
  /\ pctCur \in PctInputs
  /\ pctRef \in PctInputs
  /\ pctOut = Null
  /\ InitHandler({Malformed}, "small")
  /\ IdleSite

CallPct ==
  /\ pctFn # "none"
  /\ pctOut = Null
  /\ pctOut' = IF pctFn = "pctFromHigh" THEN pctFromHigh(pctCur, pctRef)
                ELSE pctFromLow(pctCur, pctRef)
  /\ UNCHANGED <<pctFn, pctCur, pctRef, handlerVars, pageVars, siteVars>>

SpecPct == InitPctCall /\ [][CallPct]_vars

\* ---------------------------------------------------- GET /api/nse-symbols

MaxFileLen == 4

\* the characters of the reference file: letters, a blank and the line break
FileChars == {"a", "B", " ", "\n"}

\* a file readFileSync can read, with its content
Readable(content) == [k |-> "readable", content |-> content]

Files == {Unreadable} \cup {Readable(c) : c \in SeqsUpTo(FileChars, MaxFileLen)}

\* String.prototype.split(sep) for a one-character separator
RECURSIVE splitOnFrom(_, _, _)
splitOnFrom(s, sep, cur) ==
  IF s = <<>> THEN <<cur>>
  ELSE IF Head(s) = sep THEN <<cur>> \o splitOnFrom(Tail(s), sep, <<>>)
  ELSE splitOnFrom(Tail(s), sep, Append(cur, Head(s)))

splitOn(s, sep) == splitOnFrom(s, sep, <<>>)

\* Array.prototype.slice(1)
sliceFrom1(a) == IF a = <<>> THEN <<>> ELSE Tail(a)

\* .filter((line) => line.length > 0)
filterNonEmpty(a) == SelectSeq(a, LAMBDA line : Len(line) > 0)

\* the lines of the file as they are, with no trim of the whole content
linesUntrimmed(fileContent) == splitOn(fileContent, "\n")

\* line 15: fileContent.trim().split("\n")
linesOf(fileContent) == splitOn(trim(fileContent), "\n")

\* lines 16-19
symbolsOfLines(lines) ==
  LET trimmed == [i \in 1..Len(sliceFrom1(lines)) |-> trim(sliceFrom1(lines)[i])]
      kept == filterNonEmpty(trimmed)
  IN  [i \in 1..Len(kept) |-> toUpperCase(kept[i])]

\* lines 9-29
GET ==
  /\ symbolsResponse = Null
  /\ symbolsResponse' =
       IF csvFile = Unreadable
       THEN [status |-> 500, error |-> Text("Failed to load stock symbols"),
             symbols |-> <<>>]
       ELSE [status |-> 200, symbols |-> symbolsOfLines(linesOf(csvFile.content))]
  /\ UNCHANGED <<csvFile, handlerVars, pctVars, pageVars, stripVars, formVars>>

InitSymbols ==
  /\ InitPct
  /\ InitHandler({Malformed}, "small")
  /\ IdleStrip
  /\ IdleForm
  /\ csvFile \in Files
  /\ symbolsResponse = Null

SpecSymbols == InitSymbols /\ [][GET]_vars

\* ------------------------------------------------------ stripExchangeSuffix

MaxStemLen == 3

\* String.prototype.endsWith
endsWith(s, suffix) ==
  /\ Len(s) >= Len(suffix)
  /\ SubSeq(s, Len(s) - Len(suffix) + 1, Len(s)) = suffix

DotNS == <<".", "N", "S">>
DotBSE == <<".", "B", "S", "E">>
DotBO == <<".", "B", "O">>

\* lines 64-70
stripExchangeSuffix(symbol) ==
  LET upper == toUpperCase(symbol)
  IN  IF endsWith(upper, DotNS) \/ endsWith(upper, DotBSE) \/ endsWith(upper, DotBO)
      THEN splitOn(upper, ".")[1]
      ELSE upper

\* the first part of a symbol: letters and dots
Stems == SeqsUpTo({"a", "B", "."}, MaxStemLen)

\* the end of a symbol: nothing, an exchange suffix in either case, or
\* something close to one
Endings ==
  {<<>>, DotNS, DotBSE, DotBO, <<".", "n", "s">>, <<".", "b", "o">>,
   <<".", "b", "S", "e">>, <<".", "N">>, <<"N", "S">>, <<".", "N", "S", "E">>,
   <<".", "N", "S", ".">>}

StripInputs == {stem \o ending : stem \in Stems, ending \in Endings}

\* line 388: a row's symbol cell
CallStrip ==
  /\ stripOut = Null
  /\ stripOut' = Text(stripExchangeSuffix(stripIn))
  /\ UNCHANGED <<stripIn, handlerVars, pctVars, pageVars, symbolsVars, formVars>>

InitStrip ==
  /\ InitPct
  /\ InitHandler({Malformed}, "small")
  /\ IdleSymbols
  /\ IdleForm
  /\ stripIn \in StripInputs
  /\ stripOut = Null

SpecStrip == InitStrip /\ [][CallStrip]_vars

\* ------------------------------------------------------- the page's form

MaxSuggestions == 8

\* String.prototype.startsWith
startsWith(s, prefix) ==
  Len(s) >= Len(prefix) /\ SubSeq(s, 1, Len(prefix)) = prefix

\* Array.prototype.slice(0, n)
sliceTo(a, n) == SubSeq(a, 1, IF Len(a) < n THEN Len(a) ELSE n)

\* the client's symbol list with the tokens upper-cased but not trimmed
activeSymbolsUntrimmed(input) ==
  filterBoolean([i \in 1..Len(split(input)) |-> toUpperCase(split(input)[i])])

\* lines 107-114
activeSymbols(input) == filterBoolean(mapTrimUpper(split(input)))

\* lines 117-121
extractCurrentWord(text) ==
  toUpperCase(trim(split(text)[Len(split(text))]))

\* lines 126-128 and 140-142
matching(list, word) ==
  sliceTo(SelectSeq(list, LAMBDA x : startsWith(toUpperCase(x), word)),
          MaxSuggestions)

\* lines 124-129
filteredSuggestions(word, list) ==
  IF word = <<>> \/ list = <<>> THEN <<>> ELSE matching(list, word)

\* line 279: the dropdown is rendered
DropdownShown ==
  showSuggestions /\ filteredSuggestions(currentWord, stockSuggestions) # <<>>

\* lines 132-148, on the box's new text
handleInputChange(value) ==
  /\ symbolsInput' = value
  /\ currentWord' = extractCurrentWord(value)
  /\ showSuggestions' =
       (filteredSuggestions(extractCurrentWord(value), stockSuggestions) # <<>>)
  /\ selectedIndex' = 0
  /\ lastInserted' = Null
  /\ UNCHANGED <<fetchVars, stockSuggestions, symbolsFetch>>
  /\ UNCHANGED <<handlerVars, pctVars, pageVars, symbolsVars, stripVars>>

\* Array.prototype.join(", ")
RECURSIVE joinCommaSpace(_)
joinCommaSpace(a) ==
  IF a = <<>> THEN <<>>
  ELSE IF Len(a) = 1 THEN a[1]
  ELSE a[1] \o <<",", " ">> \o joinCommaSpace(Tail(a))

\* lines 152-154: the box's text with its last part replaced
withSuggestion(input, suggestion) ==
  LET parts == [split(input) EXCEPT ![Len(split(input))] = suggestion]
  IN  joinCommaSpace(parts) \o (IF Len(parts) > 1 THEN <<",", " ">> ELSE <<>>)

\* lines 151-166
insertSuggestion(suggestion) ==
  /\ symbolsInput' = withSuggestion(symbolsInput, suggestion)
  /\ currentWord' = <<>>
  /\ showSuggestions' = FALSE
  /\ selectedIndex' = 0
  /\ lastInserted' = Text(suggestion)
  /\ UNCHANGED <<fetchVars, stockSuggestions, symbolsFetch>>
  /\ UNCHANGED <<handlerVars, pctVars, pageVars, symbolsVars, stripVars>>

\* the autocomplete's state left as it is
autoUnchanged ==
  /\ UNCHANGED <<symbolsInput, fetchVars, autoVars>>
  /\ UNCHANGED <<handlerVars, pctVars, pageVars, symbolsVars, stripVars>>

\* a key handler that lets the selection move one past the last entry
arrowDownPastEnd(prev, len) == IF prev < len THEN prev + 1 ELSE prev

\* lines 174-176
arrowDown(prev, len) == IF prev < len - 1 THEN prev + 1 ELSE prev

\* line 179
arrowUp(prev) == IF prev > 0 THEN prev - 1 ELSE 0

Keys == {"ArrowDown", "ArrowUp", "Enter", "Escape", "a"}

\* lines 169-186
handleKeyDown(key) ==
  LET filtered == filteredSuggestions(currentWord, stockSuggestions)
  IN  IF ~showSuggestions \/ filtered = <<>> THEN autoUnchanged
      ELSE IF key = "ArrowDown"
      THEN /\ selectedIndex' = arrowDown(selectedIndex, Len(filtered))
           /\ UNCHANGED <<symbolsInput, fetchVars, stockSuggestions, symbolsFetch,
                          currentWord, showSuggestions, lastInserted>>
           /\ UNCHANGED <<handlerVars, pctVars, pageVars, symbolsVars, stripVars>>
      ELSE IF key = "ArrowUp"
      THEN /\ selectedIndex' = arrowUp(selectedIndex)
           /\ UNCHANGED <<symbolsInput, fetchVars, stockSuggestions, symbolsFetch,
                          currentWord, showSuggestions, lastInserted>>
           /\ UNCHANGED <<handlerVars, pctVars, pageVars, symbolsVars, stripVars>>
      ELSE IF key = "Enter" /\ selectedIndex < Len(filtered)
                           /\ filtered[selectedIndex + 1] # <<>>
      THEN insertSuggestion(filtered[selectedIndex + 1])
      ELSE IF key = "Escape"
      THEN /\ showSuggestions' = FALSE
           /\ UNCHANGED <<symbolsInput, fetchVars, stockSuggestions, symbolsFetch,
                          currentWord, selectedIndex, lastInserted>>
           /\ UNCHANGED <<handlerVars, pctVars, pageVars, symbolsVars, stripVars>>
      ELSE autoUnchanged

\* line 285: the pointer enters the entry at idx of the dropdown
MouseEnter(idx) ==
  /\ DropdownShown
  /\ idx < Len(filteredSuggestions(currentWord, stockSuggestions))
  /\ selectedIndex' = idx
  /\ UNCHANGED <<symbolsInput, fetchVars, stockSuggestions, symbolsFetch,
                 currentWord, showSuggestions, lastInserted>>
  /\ UNCHANGED <<handlerVars, pctVars, pageVars, symbolsVars, stripVars>>

\* line 284: a click on the entry at idx of the dropdown
ClickSuggestion(idx) ==
  /\ DropdownShown
  /\ idx < Len(filteredSuggestions(currentWord, stockSuggestions))
  /\ insertSuggestion(filteredSuggestions(currentWord, stockSuggestions)[idx + 1])

\* lines 189-203
handleClickOutside ==
  /\ showSuggestions' = FALSE
  /\ UNCHANGED <<symbolsInput, fetchVars, stockSuggestions, symbolsFetch,
                 currentWord, selectedIndex, lastInserted>>
  /\ UNCHANGED <<handlerVars, pctVars, pageVars, symbolsVars, stripVars>>

\* ------------------------------------------------------------------ claims

Responded200 == pc = "responded" /\ response.status = 200

NumericsNull(r) ==
  /\ r.currentPrice = Null
  /\ r.high52 = Null
  /\ r.low52 = Null
  /\ r.pctFromHigh = Null
  /\ r.pctFromLow = Null

\* The symbols input of a body as one string, as the claims describe it.
InputString(b) ==
  IF b.k # "object" THEN <<>>
  ELSE IF b.symbols.k = "string" THEN b.symbols.s
  ELSE IF b.symbols.k = "array" THEN join(b.symbols.a)
  ELSE <<>>

\* The comma-free stretches <<i, j>> of r lying between two commas (or an end
\* of r); j = i - 1 is an empty one.
Segments(r) ==
  {sg \in (1..(Len(r) + 1)) \X (0..Len(r)) :
     /\ sg[2] >= sg[1] - 1
     /\ (sg[1] = 1 \/ r[sg[1] - 1] = ",")
     /\ (sg[2] = Len(r) \/ r[sg[2] + 1] = ",")
     /\ \A k \in sg[1]..sg[2] : r[k] # ","}

\* The token of a stretch: its characters from the first to the last one that
\* is not white space, in upper case.
TokenOf(r, sg) ==
  LET inked == {k \in sg[1]..sg[2] : r[k] # " "}
  IN  IF inked = {} THEN <<>>
      ELSE LET lo == CHOOSE k \in inked : \A m \in inked : k <= m
               hi == CHOOSE k \in inked : \A m \in inked : k >= m
           IN  [k \in 1..(hi - lo + 1) |->
                  IF r[lo + k - 1] = "a" THEN "A"
                  ELSE IF r[lo + k - 1] = "b" THEN "B"
                  ELSE r[lo + k - 1]]

Tokens(r) == {TokenOf(r, sg) : sg \in Segments(r)} \ {<<>>}

\* where the first stretch with token t starts
FirstSeen(r, t) ==
  LET starts == {sg[1] : sg \in {x \in Segments(r) : TokenOf(r, x) = t}}
  IN  CHOOSE k \in starts : \A m \in starts : k <= m

\* C1: when the symbols input has a non-empty token, the handler fans out over
\* exactly the input's tokens (split on commas, trimmed, upper-cased, empty
\* ones dropped), each once, in the order of their first occurrence, and
\* calls buildStockInsight once per entry.
C1_NormalizedSymbolList ==
  LET r == InputString(body)
  IN  (body # NullBody /\ Tokens(r) # {} /\ pc \notin {"start", "parsed"}) =>
        /\ pc = "awaiting"
        /\ Elems(unique) = Tokens(r)
        /\ Len(unique) = Cardinality(Tokens(r))
        /\ \A i, j \in 1..Len(unique) :
              i < j => FirstSeen(r, unique[i]) < FirstSeen(r, unique[j])
        /\ calls.buildStockInsight = Len(unique)

\* "a,b,A" has fanned out over [A, B]
C1_Witness ==
  /\ pc = "awaiting"
  /\ body = Obj(StringVal(<<"a", ",", "b", ",", "A">>))
  /\ unique = << <<"A">>, <<"B">> >>

\* the symbols input holds nothing but commas and white space, or is missing
NoTokenInput(b) ==
  /\ b.k = "object"
  /\ \/ b.symbols = Undefined
     \/ /\ b.symbols.k = "string"
        /\ \A k \in 1..Len(b.symbols.s) : b.symbols.s[k] \in {",", " "}
     \/ /\ b.symbols.k = "array"
        /\ \A e \in 1..Len(b.symbols.a) :
              \A k \in 1..Len(b.symbols.a[e]) : b.symbols.a[e][k] \in {",", " "}

\* C2: a request whose symbols input is empty, white space and commas only, or
\* missing is answered 400 with an error message, and no call of
\* buildStockInsight, fetchBulkDealsForSymbol or a provider is ever made for it.
C2_EmptyInputRejected ==
  NoTokenInput(body) =>
    /\ calls = NoCalls
    /\ pc # "awaiting"
    /\ pc = "responded" =>
          /\ response.status = 400
          /\ response.error = Text("No symbols provided.")

\* the array [" ", ","] has been answered 400
C2_Witness ==
  /\ pc = "responded"
  /\ body = Obj(ArrayVal(<< <<" ">>, <<",">> >>))
  /\ response.status = 400
  /\ calls = NoCalls

\* C3: once the symbols are fanned out the response is 200 with an entry per
\* symbol: a symbol whose price/range call failed has error set to the
\* failure message and null numeric fields, a symbol whose call succeeded has
\* no error and its price, range and percentages filled in (a percentage is
\* null on the wire only when its 52-week reference is zero), whatever
\* happened to the other symbols.
C3_PriceFailureIsPerSymbol ==
  /\ (pc = "responded" /\ unique # <<>>) => response.status = 200
  /\ Responded200 =>
       /\ Len(response.results) = Len(unique)
       /\ \A i \in 1..Len(unique) :
             LET r == response.results[i]
             IN  /\ priceRes[i].k = "fail" =>
                       r.error = Text(priceRes[i].message) /\ NumericsNull(r)
                 /\ priceRes[i].k = "ok" =>
                       /\ r.error = Null
                       /\ r.currentPrice = priceRes[i].currentPrice
                       /\ r.high52 = priceRes[i].high52
                       /\ r.low52 = priceRes[i].low52
                       /\ r.pctFromHigh = Null <=> priceRes[i].high52 = Int2Num(0)
                       /\ r.pctFromLow = Null <=> priceRes[i].low52 = Int2Num(0)
                       /\ r.pctFromHigh # Null => r.pctFromHigh.k = "num"
                       /\ r.pctFromLow # Null => r.pctFromLow.k = "num"

\* a 200 response for two symbols, the first failed and the second priced
C3_Witness ==
  /\ Responded200
  /\ Len(unique) = 2
  /\ priceRes[1].k = "fail"
  /\ priceRes[2].k = "ok"
  /\ response.results[1].error # Null
  /\ response.results[2].error = Null

\* C4: a 200 response has one entry per symbol of the de-duplicated list, the
\* i-th entry carrying the i-th symbol unchanged, in whatever order the
\* per-symbol callbacks resolved.
C4_ResultsInSymbolOrder ==
  Responded200 =>
    /\ Len(response.results) = Len(unique)
    /\ \A i \in 1..Len(unique) : response.results[i].symbol = unique[i]
    /\ \A i, j \in 1..Len(unique) : i # j => unique[i] # unique[j]

\* a 200 response whose second symbol resolved before its first
C4_Witness ==
  /\ Responded200
  /\ doneOrder = <<2, 1>>
  /\ response.results[1].symbol = unique[1]

\* the records built so far: the callbacks' values and the response's entries
Records ==
  {insights[i] : i \in {j \in 1..Len(insights) : insights[j] # Null}}
    \cup (IF pc = "responded" /\ response.status = 200
          THEN Elems(response.results) ELSE {})

\* C5 as stated: a record with error set has null numeric fields and empty
\* latestNews and bulkDeals.
C5_ErrorRecordIsEmpty ==
  \A r \in Records :
    r.error # Null => NumericsNull(r) /\ r.latestNews = <<>> /\ r.bulkDeals = <<>>

\* C5, amended: a record with error set has null numeric fields and empty
\* bulkDeals (its latestNews is whatever the news fetch gave).
C5_ErrorRecordHasNoNumbers ==
  \A r \in Records :
    r.error # Null => NumericsNull(r) /\ r.bulkDeals = <<>>

\* a response entry with error set that carries headlines
C5_Witness ==
  /\ Responded200
  /\ \E i \in 1..Len(response.results) :
        /\ response.results[i].error # Null
        /\ response.results[i].latestNews # <<>>
        /\ response.results[i].bulkDeals = <<>>

Min(a, b) == IF a < b THEN a ELSE b

\* C6: the record of a symbol whose price/range call failed has error set to
\* the failure message and null numeric fields, holds headlines of the news
\* call's result (as many as it returned, up to TopNews; none if it failed),
\* and holds the bulk deals the deals call returned (none).
C6_PriceFailureKeepsNews ==
  \A i \in 1..Len(insights) :
    (insights[i] # Null /\ priceRes[i].k = "fail") =>
      LET r == insights[i]
      IN  /\ r.error = Text(priceRes[i].message)
          /\ NumericsNull(r)
          /\ newsRes[i].k = "fail" => r.latestNews = <<>>
          /\ newsRes[i].k = "ok" =>
                /\ Len(r.latestNews) = Min(TopNews, Len(newsRes[i].items))
                /\ Elems(r.latestNews) \subseteq Elems(newsRes[i].items)
          /\ r.bulkDeals = <<>>

\* the price/range call failed, the news call gave four items, and the record
\* sent holds the error and three headlines
C6_Witness ==
  /\ Responded200
  /\ priceRes[1].k = "fail"
  /\ newsRes[1].k = "ok"
  /\ Len(newsRes[1].items) = 4
  /\ response.results[1].error = Text("price provider error")
  /\ Len(response.results[1].latestNews) = 3

\* C7, the general part: on finite inputs with a non-zero reference the result
\* x is the number with x * ref = (currentPrice - ref) * 100; otherwise it is
\* the not-a-number sentinel.
PctIsExact ==
  pctOut # Null =>
    IF isFinite(pctCur) /\ isFinite(pctRef) /\ pctRef.n # 0
    THEN /\ pctOut.k = "num"
         /\ FMul(pctOut, pctRef) = FMul(FSub(pctCur, pctRef), Int2Num(100))
    ELSE pctOut = NaN

PctExample(fn, ref, hundredths) ==
  (pctOut # Null /\ pctFn = fn /\ pctCur = Rat(123456, 100) /\ pctRef = Int2Num(ref))
    => pctOut.k = "num" /\ toFixed2(pctOut) = hundredths

C8_LatestNewsTopThree ==
  /\ \A r \in Records :
        /\ Len(r.latestNews) <= TopNews
        /\ \A k \in 1..(Len(r.latestNews) - 1) :
              r.latestNews[k].publishedAt >= r.latestNews[k + 1].publishedAt
  /\ \A i \in 1..Len(insights) :
        (insights[i] # Null /\ newsRes[i].k = "ok") =>
          LET shown == Elems(insights[i].latestNews)
              given == Elems(newsRes[i].items)
          IN  /\ shown \subseteq given
              /\ Cardinality(shown) = Min(TopNews, Cardinality(given))
              /\ \A x \in shown, y \in given \ shown : x.publishedAt >= y.publishedAt
  /\ \A i \in 1..Len(rendered) : rendered[i] <= TopNews

\* the provider returned four items, oldest first, and the row shows the three
\* most recent ones
C8_Witness ==
  /\ rendered = <<3>>
  /\ newsRes[1] = Feed(<<1, 2, 3, 4>>)
  /\ response.results[1].latestNews = <<NewsItem(4), NewsItem(3), NewsItem(2)>>

MaxSymbolLen == 4

\* the words of exactly n letters over A and B, in dictionary order
RECURSIVE Words(_)
Words(n) ==
  IF n = 1 THEN << <<"A">>, <<"B">> >>
  ELSE LET shorter == Words(n - 1)
       IN  [i \in 1..(2 * Len(shorter)) |->
              Append(shorter[(i + 1) \div 2], IF i % 2 = 1 THEN "A" ELSE "B")]

RECURSIVE SymbolsUpTo(_)
SymbolsUpTo(n) == IF n = 0 THEN <<>> ELSE SymbolsUpTo(n - 1) \o Words(n)

\* the lists GET /api/nse-symbols may answer with: a long one, a short one
\* and the empty one (which is also what a 500 answer carries)
SymbolLists ==
  {SymbolsUpTo(MaxSymbolLen), << <<"A", "B">>, <<"B">> >>, <<>>}

\* lines 89-105: the request for the symbol list settles, with a list, with a
\* body that has no symbols array, or with an exception
SymbolsArrive ==
  /\ symbolsFetch = "pending"
  /\ symbolsFetch' = "settled"
  /\ \/ \E list \in SymbolLists : stockSuggestions' = list
     \/ UNCHANGED stockSuggestions
     \/ stockSuggestions' = <<>>
  /\ UNCHANGED <<symbolsInput, fetchVars, currentWord, showSuggestions,
                 selectedIndex, lastInserted>>
  /\ UNCHANGED <<handlerVars, pctVars, pageVars, symbolsVars, stripVars>>

\* ------------------------------------------------- the page's fetch flow

MaxInFlight == 2

\* what POST /api/stock-insights answers to body b, its rows cut down to
\* their symbol
answerOf(b) ==
  IF thrownBy(reqJson(b)) # Null THEN catchResponse(thrownBy(reqJson(b)))
  ELSE IF symbolsOf(rawOf(reqJson(b))) = <<>>
  THEN [status |-> 400, error |-> Text("No symbols provided.")]
  ELSE LET u == uniqueOf(symbolsOf(rawOf(reqJson(b))))
       IN  [status |-> 200, results |-> [i \in 1..Len(u) |-> [symbol |-> u[i]]]]

\* how a request can settle: fetch rejects; the route's own answer arrives;
\* a gateway answers 502 with a JSON body that has no error field, or with a
\* body that is not JSON
Outcomes(b) ==
  {[k |-> "network", message |-> Text("Failed to fetch")],
   [k |-> "json", answer |-> answerOf(b)],
   [k |-> "json", answer |-> [status |-> 502, error |-> Undefined]],
   [k |-> "text", status |-> 502,
    message |-> Text("Unexpected token < in JSON at position 0")]}

\* res.ok
ok(status) == status >= 200 /\ status <= 299

\* lines 213-230: the exception the try block throws on an outcome, or Null
thrownOn(o) ==
  IF o.k \in {"network", "text"} THEN o.message
  ELSE IF ok(o.answer.status) THEN Null
  ELSE IF o.answer.error # Undefined THEN o.answer.error
  ELSE Text("Request failed with status 502")

\* line 216: JSON.stringify({ symbols: symbolsInput }), as the route parses it
requestOf(input) == Obj(StringVal(input))

\* a Fetch button that can be clicked at any time
neverDisabled(l) == FALSE

\* line 305: disabled={loading}
disabled(l) == l

\* lines 205-218: a click on Fetch, up to the first await
handleFetch ==
  /\ ~disabled(loading)
  /\ Len(inflight) < MaxInFlight
  /\ apiError' = Null
  /\ lastOutcome' = Null
  /\ IF activeSymbols(symbolsInput) = <<>>
     THEN /\ validationError' = Text("Please enter at least one stock symbol.")
          /\ lastClick' = [sent |-> FALSE, answer |-> answerOf(requestOf(symbolsInput))]
          /\ UNCHANGED <<loading, inflight>>
     ELSE /\ validationError' = Null
          /\ loading' = TRUE
          /\ inflight' = Append(inflight, requestOf(symbolsInput))
          /\ lastClick' = [sent |-> TRUE, answer |-> answerOf(requestOf(symbolsInput))]
  /\ UNCHANGED <<symbolsInput, results, autoVars>>
  /\ UNCHANGED <<handlerVars, pctVars, pageVars, symbolsVars, stripVars>>

\* a sequence without its k-th element
without(a, k) == SubSeq(a, 1, k - 1) \o SubSeq(a, k + 1, Len(a))

\* lines 219-236: the k-th request in flight settles and handleFetch runs to
\* its end
Settle(k) ==
  /\ k \in 1..Len(inflight)
  /\ \E o \in Outcomes(inflight[k]) :
       /\ IF thrownOn(o) # Null
          THEN apiError' = thrownOn(o) /\ results' = <<>>
          ELSE results' = o.answer.results /\ UNCHANGED apiError
       /\ lastOutcome' = o
  /\ loading' = FALSE
  /\ inflight' = without(inflight, k)
  /\ UNCHANGED <<symbolsInput, validationError, lastClick, autoVars>>
  /\ UNCHANGED <<handlerVars, pctVars, pageVars, symbolsVars, stripVars>>

\* -------------------------------------------------- the page: specifications

MaxFormLen == 2
MaxTypedLen == 2

\* the texts typed into the box in the fetch flow: letters, blanks, commas
FormTexts == SeqsUpTo({"a", " ", ","}, MaxFormLen)

\* the texts typed into the box in the autocomplete: a word of letters, alone
\* or after other entries, with or without a comma after it
TypedTexts ==
  {before \o word \o after :
     before \in {<<>>, <<"b", ",">>, <<"a", ",", " ">>},
     word \in SeqsUpTo({"a", "b"}, MaxTypedLen),
     after \in {<<>>, <<",">>}}

InitForm ==
  /\ InitPct
  /\ InitHandler({Malformed}, "small")
  /\ IdleSymbols
  /\ IdleStrip
  /\ FormMounted

\* The fetch flow: the box is edited, Fetch is clicked, requests settle.
NextFetch ==
  \/ \E value \in FormTexts : handleInputChange(value)
  \/ handleFetch
  \/ \E k \in 1..MaxInFlight : Settle(k)

SpecFetch == InitForm /\ [][NextFetch]_vars

\* The autocomplete: the symbol list arrives, the box is edited, keys are
\* pressed, the pointer moves over and clicks the dropdown or clicks outside.
NextAuto ==
  \/ SymbolsArrive
  \/ \E value \in TypedTexts : handleInputChange(value)
  \/ \E key \in Keys : handleKeyDown(key)
  \/ \E idx \in 0..(MaxSuggestions - 1) : MouseEnter(idx)
  \/ \E idx \in 0..(MaxSuggestions - 1) : ClickSuggestion(idx)
  \/ handleClickOutside

SpecAuto == InitForm /\ [][NextAuto]_vars

\* ------------------------------------------------------------------ C11

\* C11 as stated: a request whose body cannot be parsed as JSON is caught
\* by the handler's catch block and answered with HTTP 500 and the generic
\* error text.
C11_MalformedBodyIs500 ==
  (pc = "responded" /\ body = Malformed) =>
    /\ caught # Null
    /\ response.status = 500
    /\ response.error = Text(GenericMessage)

\* C11 amended: a body that cannot be parsed as JSON never reaches the catch
\* block; line 10 replaces it by the empty object, so the request is answered
\* like one without a symbols field: HTTP 400 "No symbols provided.", with
\* no collaborator called.
C11_MalformedBodyIs400 ==
  /\ (pc # "start" /\ body = Malformed) => parsed = Obj(Undefined)
  /\ (pc = "responded" /\ body = Malformed) =>
       /\ caught = Null
       /\ response = [status |-> 400, error |-> Text("No symbols provided.")]
       /\ calls = NoCalls

C11_Witness ==
  pc = "responded" /\ body = Malformed /\ response.status = 400

\* ------------------------------------------------------------------ C12

\* The lines <<i, j>> of r: the stretches without a line break lying between
\* two line breaks (or an end of r); j = i - 1 is an empty line.
LineStretches(r) ==
  {sg \in (1..(Len(r) + 1)) \X (0..Len(r)) :
     /\ sg[2] >= sg[1] - 1
     /\ (sg[1] = 1 \/ r[sg[1] - 1] = "\n")
     /\ (sg[2] = Len(r) \/ r[sg[2] + 1] = "\n")
     /\ \A k \in sg[1]..sg[2] : r[k] # "\n"}

\* The text of a line: its characters from the first to the last one that is
\* not a blank, in upper case.
LineText(r, sg) ==
  LET inked == {k \in sg[1]..sg[2] : r[k] # " "}
  IN  IF inked = {} THEN <<>>
      ELSE LET lo == CHOOSE k \in inked : \A m \in inked : k <= m
               hi == CHOOSE k \in inked : \A m \in inked : k >= m
           IN  [k \in 1..(hi - lo + 1) |->
                  IF r[lo + k - 1] = "a" THEN "A" ELSE r[lo + k - 1]]

\* the lines of r after its first line that are not blank
LinesKept(r) ==
  {sg \in LineStretches(r) : sg[1] # 1 /\ LineText(r, sg) # <<>>}

\* out lists the texts of the non-blank lines of r after the first line, in
\* the order of the lines
LinesAfterFirst(r, out) ==
  /\ Len(out) = Cardinality(LinesKept(r))
  /\ \A sg \in LinesKept(r) :
        out[Cardinality({x \in LinesKept(r) : x[1] <= sg[1]})] = LineText(r, sg)

\* the file's content without the white space before its first non-blank
\* character and after its last one
ContentTrimmed(fileContent) ==
  LET first == CHOOSE i \in 1..Len(fileContent) :
                 /\ ~IsSpace(fileContent[i])
                 /\ \A j \in 1..(i - 1) : IsSpace(fileContent[j])
      last == CHOOSE i \in 1..Len(fileContent) :
                 /\ ~IsSpace(fileContent[i])
                 /\ \A j \in (i + 1)..Len(fileContent) : IsSpace(fileContent[j])
  IN  IF \A i \in 1..Len(fileContent) : IsSpace(fileContent[i]) THEN <<>>
      ELSE SubSeq(fileContent, first, last)

SymbolsResponded == symbolsResponse # Null

\* C12 as stated: the symbols handler has two outcomes; a readable file gives
\* 200 with the file's lines after its first line, each trimmed, blank ones
\* dropped, upper-cased, in file order; an unreadable file gives 500 with an
\* error string and an empty symbols list.
C12_SymbolsAreFileLinesAfterFirst ==
  SymbolsResponded =>
    IF csvFile = Unreadable
    THEN /\ symbolsResponse.status = 500
         /\ symbolsResponse.error.k = "str"
         /\ symbolsResponse.symbols = <<>>
    ELSE /\ symbolsResponse.status = 200
         /\ LinesAfterFirst(csvFile.content, symbolsResponse.symbols)

\* C12 amended: as stated, except that the lines are those of the content
\* with its leading and trailing white space removed, so the line skipped as
\* the header is the first line that is not blank.
C12_SymbolsAreTrimmedContentLinesAfterFirst ==
  SymbolsResponded =>
    IF csvFile = Unreadable
    THEN /\ symbolsResponse.status = 500
         /\ symbolsResponse.error.k = "str"
         /\ symbolsResponse.symbols = <<>>
    ELSE /\ symbolsResponse.status = 200
         /\ LinesAfterFirst(ContentTrimmed(csvFile.content), symbolsResponse.symbols)

\* a file that starts with a blank line: the header is its second line
C12_Witness ==
  /\ csvFile = Readable(<<"\n", "a", "\n", "B">>)
  /\ SymbolsResponded
  /\ symbolsResponse.symbols = << <<"B">> >>

\* ------------------------------------------------------------------ C13

\* C13: fetchBulkDealsForSymbol returns the empty sequence for every symbol
\* of the request, the record a callback resolves with has an empty bulkDeals
\* whatever the record of buildStockInsight held there, and so has every
\* entry of every 200 response.
C13_BulkDealsAlwaysEmpty ==
  /\ \A i \in 1..Len(unique) : fetchBulkDealsForSymbol(unique[i]) = <<>>
  /\ \A i \in 1..Len(insights) :
        stage[i] = "done" => insights[i].bulkDeals = <<>>
  /\ Responded200 =>
        /\ Len(response.results) = Len(unique)
        /\ \A i \in 1..Len(response.results) :
              response.results[i].bulkDeals = <<>>

\* a 200 response for a symbol whose base record carried a deal
C13_Witness ==
  /\ Responded200
  /\ \E i \in 1..Len(unique) :
        /\ base[i].bulkDeals # <<>>
        /\ response.results[i].bulkDeals = <<>>

\* ------------------------------------------------------------------ C14

FannedOut == pc = "awaiting" \/ Responded200

\* the symbols whose bulk-deal fetch has been started
DealsStarted == {i \in 1..Len(unique) : stage[i] # "build"}

\* C14 as stated: the bulk-deal fetch of every symbol is launched with the
\* fan-out, like the symbol's other operations, its start waiting for no
\* other fetch to complete.
C14_AllLaunchedAtFanOut ==
  FannedOut =>
    /\ calls.buildStockInsight = Len(unique)
    /\ calls.fetchBulkDealsForSymbol = Len(unique)

\* C14 amended: with the fan-out buildStockInsight has been called for every
\* symbol, but the bulk-deal fetch of a symbol is started only once that
\* symbol's buildStockInsight has resolved with its record; it waits for no
\* other symbol.
C14_DealsStartAfterOwnBuild ==
  FannedOut =>
    /\ calls.buildStockInsight = Len(unique)
    /\ calls.fetchBulkDealsForSymbol = Cardinality(DealsStarted)
    /\ \A i \in DealsStarted : base[i] # Null
    /\ \A i \in 1..Len(unique) : stage[i] = "build" => base[i] = Null

\* the bulk-deal fetch of one symbol in flight while buildStockInsight of
\* another symbol has not resolved
C14_Witness ==
  /\ pc = "awaiting"
  /\ Len(unique) = 2
  /\ stage[1] = "deals"
  /\ stage[2] = "build"
  /\ base[2] = Null

\* ------------------------------------------------------------------ C15

\* the request has a non-empty symbol set
HasSymbols == pc # "start" /\ thrownBy(parsed) = Null /\ symbolsOf(rawOf(parsed)) # <<>>

\* C15: for a request with a non-empty symbol set, a response is sent only
\* when the callback of every unique symbol has resolved, and it holds one
\* record per symbol; once sent the response is never replaced by another;
\* and when every step that can be taken is eventually taken, the response
\* is eventually sent.
C15_OneResponseAfterAllPipelines ==
  /\ []((HasSymbols /\ response # Null) =>
          /\ pc = "responded"
          /\ response.status = 200
          /\ Len(unique) > 0
          /\ \A i \in 1..Len(unique) : stage[i] = "done"
          /\ Len(doneOrder) = Len(unique)
          /\ Len(response.results) = Len(unique))
  /\ [][response # Null => response' = response]_vars
  /\ (HasSymbols ~> (pc = "responded" /\ response # Null))

\* a response for two symbols, the callback of the second having resolved
\* before that of the first
C15_Witness ==
  /\ Responded200
  /\ Len(unique) = 2
  /\ doneOrder = <<2, 1>>

\* ------------------------------------------------------------------ C16

\* the exchange suffix an upper-cased symbol ends in, or the empty string
ExchangeSuffixOf(upper) ==
  IF endsWith(upper, DotNS) THEN DotNS
  ELSE IF endsWith(upper, DotBSE) THEN DotBSE
  ELSE IF endsWith(upper, DotBO) THEN DotBO
  ELSE <<>>

\* C16: stripExchangeSuffix returns the upper-cased symbol without its
\* exchange suffix (.NS, .BSE or .BO, in either case) and with everything
\* before the suffix kept, and the upper-cased symbol itself when it ends in
\* no exchange suffix.
C16_StripsExactlyTheSuffix ==
  stripOut # Null =>
    LET upper == toUpperCase(stripIn)
    IN  stripOut = Text(SubSeq(upper, 1, Len(upper) - Len(ExchangeSuffixOf(upper))))

\* a symbol with a dot before its exchange suffix, cut at the first dot
C16_Witness ==
  /\ stripIn = <<"a", ".", "B", ".", "N", "S">>
  /\ stripOut = Text(<<"A">>)

\* ------------------------------------------------------------------ C17

\* a request that failed: a network error, a status outside 200-299, or a
\* body that is not JSON
Failed(o) ==
  IF o.k = "json" THEN o.answer.status < 200 \/ o.answer.status > 299 ELSE TRUE

\* C17: at most one request is in flight, loading is true exactly while one
\* is, and when a request has settled loading is false, a failed request
\* has left an error text in apiError and no rows in results, and a
\* successful one has left apiError null and the response's rows in results.
C17_FetchFlow ==
  /\ Len(inflight) <= 1
  /\ loading <=> inflight # <<>>
  /\ lastOutcome # Null =>
       /\ ~loading
       /\ inflight = <<>>
       /\ IF Failed(lastOutcome)
          THEN apiError # Null /\ apiError.k = "str" /\ results = <<>>
          ELSE apiError = Null /\ results = lastOutcome.answer.results

\* a request for the initial text has succeeded with its two rows
C17_Witness ==
  /\ lastOutcome # Null
  /\ ~Failed(lastOutcome)
  /\ ~loading
  /\ apiError = Null
  /\ results = << [symbol |-> <<"R", "E", "L", "I", "A", "N", "C", "E">>],
                  [symbol |-> <<"T", "C", "S">>] >>

\* ------------------------------------------------------------------ C18

\* C18: for the box's text, the page's check finds no symbol exactly when
\* the text has no non-empty token and exactly when the route answers 400
\* to the request the page would send; a click of Fetch sets the validation
\* error and sends nothing exactly in that case; so no request in flight, and
\* no answer of the route received, is a 400.
C18_ClientCheckMatchesServer ==
  /\ (activeSymbols(symbolsInput) = <<>>) <=> (Tokens(symbolsInput) = {})
  /\ (Tokens(symbolsInput) = {}) <=>
       (answerOf(requestOf(symbolsInput)).status = 400)
  /\ lastClick # Null =>
       /\ lastClick.sent <=> lastClick.answer.status # 400
       /\ lastClick.sent <=> validationError = Null
  /\ \A k \in 1..Len(inflight) : answerOf(inflight[k]).status = 200
  /\ (lastOutcome # Null /\ lastOutcome.k = "json") =>
       lastOutcome.answer.status # 400

\* a click on a text of commas and blanks: the validation error, no request
C18_Witness ==
  /\ symbolsInput = <<",", " ">>
  /\ lastClick # Null
  /\ ~lastClick.sent
  /\ lastClick.answer.status = 400
  /\ validationError # Null
  /\ inflight = <<>>

\* ------------------------------------------------------------------ C19

\* C19: the suggestions offered are at most 8 and each starts with the
\* current word; whenever the dropdown is shown selectedIndex is an index of
\* one of them; and what an event inserts into the box is one of the
\* symbols of the list, never undefined.
C19_SelectionInRange ==
  LET offered == filteredSuggestions(currentWord, stockSuggestions)
  IN  /\ Len(offered) <= 8
      /\ \A i \in 1..Len(offered) :
            /\ Len(offered[i]) >= Len(currentWord)
            /\ \A j \in 1..Len(currentWord) : offered[i][j] = currentWord[j]
      /\ (showSuggestions /\ offered # <<>>) =>
            (0 <= selectedIndex /\ selectedIndex < Len(offered))
      /\ lastInserted # Undefined
      /\ lastInserted # Null =>
            \E i \in 1..Len(stockSuggestions) :
              lastInserted = Text(stockSuggestions[i])

\* more than 8 symbols start with the current word, the dropdown is shown
\* and the selection is on the last of the 8 offered
C19_Witness ==
  /\ showSuggestions
  /\ currentWord = <<"A">>
  /\ Len(SelectSeq(stockSuggestions, LAMBDA x : x[1] = "A")) > 8
  /\ Len(filteredSuggestions(currentWord, stockSuggestions)) = 8
  /\ selectedIndex = 7

====
